---- MODULE Spec2Model ----
(***************************************************************************)
(* Model of the MCP server lifecycle (src/src/ui/app.py) and of the        *)
(* consent wrapper around MCP tools (src/src/utils/mcp_tools_wrapper.py).  *)
(*                                                                         *)
(* The program runs on one asyncio event loop: a coroutine runs atomically *)
(* from one await to the next, so one action of the model is one such      *)
(* segment of a handler.  What the outside world answers at an await (a    *)
(* server process, the chat UI, the underlying tool) is chosen with \E.    *)
(***************************************************************************)
EXTENDS Integers, Sequences, FiniteSets, TLC

\* ------------------------------------------------------------------ bounds
NumSessions == 2
MaxServers == 2

Sessions == 1..NumSessions
ServerIds == 1..MaxServers

\* ------------------------------------------------------------- text values
\* A Python str is a sequence of one-character strings.
UpperChars == <<"A","B","C","D","E","F","G","H","I","J","K","L","M",
                "N","O","P","Q","R","S","T","U","V","W","X","Y","Z">>
LowerChars == <<"a","b","c","d","e","f","g","h","i","j","k","l","m",
                "n","o","p","q","r","s","t","u","v","w","x","y","z">>
Whitespace == {" ", "\t", "\n"}

\* str.lower(), one character
lower_char(c) ==
    IF \E i \in 1..26 : UpperChars[i] = c
    THEN LowerChars[CHOOSE i \in 1..26 : UpperChars[i] = c]
    ELSE c

\* str.lower()
lower(str) == [i \in 1..Len(str) |-> lower_char(str[i])]

\* str.strip()
strip(str) ==
    LET keep == {i \in 1..Len(str) : str[i] \notin Whitespace}
    IN  IF keep = {} THEN <<>>
        ELSE LET lo == CHOOSE i \in keep : \A j \in keep : i <= j
                 hi == CHOOSE i \in keep : \A j \in keep : j <= i
             IN  SubSeq(str, lo, hi)

\* Python's `kw in text` on two str
contains(kw, text) ==
    \E i \in 1..(Len(text) - Len(kw) + 1) : SubSeq(text, i, i + Len(kw) - 1) = kw

\* ------------------------------------------------------------------ tools
\* A tool object: its name and the server whose session it calls (0: local).
Tool(n, srv) == [name |-> n, server |-> srv]

\* base_tools(): the two local visual tools
base_tools == << Tool("generate_image", 0), Tool("render_chart", 0) >>

\* What load_mcp_tools may return for a live session of server i: the server
\* decides, the program does not.  Server 1 plays the AWS API server; another
\* entry launches the Cost Explorer server or the AWS API server once more
\* (under another name, for another profile), and then offers a tool of the same
\* name; any of them may expose no tool at all.
OfferedTools(i) ==
    IF i = 1 THEN { <<>>, << Tool("call_aws", i) >> }
    ELSE { <<>>, << Tool("get_cost_and_usage", i) >>, << Tool("call_aws", i) >> }

\* ----------------------------------------------------------- configuration
\* One entry of "mcpServers", by what initialize_mcp can observe of it:
\*   command   : a mapping with a command and usable args/env
\*   nocommand : a mapping without (or with an empty) "command"
\*   badargs   : a mapping with a command whose args/env StdioServerParameters rejects
\*   malformed : not a mapping (a string, a list, null): it has no .get
EntryKinds == {"command", "nocommand", "badargs", "malformed"}

RECURSIVE EntrySeqs(_)
EntrySeqs(n) ==
    IF n = 0 THEN { <<>> }
    ELSE LET shorter == EntrySeqs(n - 1)
         IN  shorter \cup { Append(q, [kind |-> k]) : q \in {x \in shorter : Len(x) = n - 1},
                                            k \in EntryKinds }

\* The file CHAINLIT_MCP_CONFIG names, by what json.load makes of it:
\*   missing    : open() raises
\*   invalid    : json.load raises (not JSON)
\*   notmapping : valid JSON that is not an object (a list, a string, a number)
\*   nokey      : an object without "mcpServers"
\*   serverslist: an object whose "mcpServers" is a non-empty list
\*   mapping    : an object whose "mcpServers" is an object; entry i is server i
ConfigSources ==
    { [kind |-> k, servers |-> <<>>] :
        k \in {"missing", "invalid", "notmapping", "nokey", "serverslist"} }
    \cup { [kind |-> "mapping", servers |-> q] : q \in EntrySeqs(MaxServers) }

\* ------------------------------------------------- the consent wrapper
\* mcp_tools_wrapper.is_mutation_operation: the keyword lists, in their order
\* readonly_keywords
readonly_keywords == <<
    <<"d","e","s","c","r","i","b","e">>,
    <<"l","i","s","t">>,
    <<"g","e","t">>,
    <<"s","h","o","w">>,
    <<"h","e","a","d">> >>

\* mutation_keywords
mutation_keywords == <<
    <<"c","r","e","a","t","e">>,
    <<"d","e","l","e","t","e">>,
    <<"m","o","d","i","f","y">>,
    <<"u","p","d","a","t","e">>,
    <<"p","u","t">>,
    <<"t","e","r","m","i","n","a","t","e">>,
    <<"s","t","o","p">>,
    <<"s","t","a","r","t">>,
    <<"r","e","b","o","o","t">>,
    <<"a","t","t","a","c","h">>,
    <<"d","e","t","a","c","h">>,
    <<"a","s","s","o","c","i","a","t","e">>,
    <<"d","i","s","a","s","s","o","c","i","a","t","e">>,
    <<"e","n","a","b","l","e">>,
    <<"d","i","s","a","b","l","e">>,
    <<"c","o","n","f","i","g","u","r","e">>,
    <<"r","u","n">>,
    <<"a","l","l","o","c","a","t","e">>,
    <<"r","e","l","e","a","s","e">>,
    <<"c","o","p","y">>,
    <<"i","m","p","o","r","t">>,
    <<"e","x","p","o","r","t">> >>

\* The replies request_user_consent takes for an approval
affirmative == { <<"y","e","s">>, <<"y">>, <<"a","p","p","r","o","v","e">>, <<"o","k">> }

\* Commands an agent passes to call_aws: the text, as the agent wrote it.
cmd_list_bucket == <<"s","3"," ","l","s">>
cmd_remove == <<"s","3"," ","r","m"," ","s","3",":","/","/","b"," ","-","-","r","e","c","u","r","s","i","v","e">>
cmd_describe == <<"e","c","2"," ","d","e","s","c","r","i","b","e","-","v","o","l","u","m","e","s">>
cmd_terminate == <<"e","c","2"," ","t","e","r","m","i","n","a","t","e","-","i","n","s","t","a","n","c","e","s">>
cmd_Delete == <<"E","C","2"," ","D","e","l","e","t","e","-","V","o","l","u","m","e">>
cmd_describe_delete == <<"d","e","s","c","r","i","b","e"," ","a","n","d"," ","t","h","e","n"," ","d","e","l","e","t","e">>
cmd_stop_target == <<"e","c","2"," ","s","t","o","p","-","i","n","s","t","a","n","c","e","s"," ","-","-","t","a","r","g","e","t"," ","i","1">>

Commands == { cmd_list_bucket, cmd_remove, cmd_describe, cmd_terminate, cmd_Delete,
              cmd_describe_delete, cmd_stop_target }

\* A value of the arguments mapping: a str, None, or an int.  Only a str has
\* .lower(); None and the empty str are falsy.
Str(chars) == [type |-> "str", val |-> chars]
None == [type |-> "none", val |-> <<>>]
Int5 == [type |-> "int", val |-> <<"5">>]

truthy(v) == IF v.type = "str" THEN v.val # <<>> ELSE v.type # "none"

\* dict.get(key, default)
get(arguments, key, default) ==
    IF key \in DOMAIN arguments THEN arguments[key] ELSE default

\* a or b or c or d
or4(a, b, c, d) == IF truthy(a) THEN a ELSE IF truthy(b) THEN b ELSE IF truthy(c) THEN c ELSE d

\* The keys an arguments mapping may carry, and the mappings tried.
ArgKeys == {"cli_command", "command", "aws_command", "query"}

one(key, v) == [k \in {key} |-> v]
two(k1, v1, k2, v2) == [k \in {k1, k2} |-> IF k = k1 THEN v1 ELSE v2]

KwargsSet ==
    { one(key, Str(c)) : key \in ArgKeys, c \in Commands }
    \cup { [k \in {} |-> None],
           one("cli_command", Str(<<>>)),
           one("cli_command", None),
           one("cli_command", Int5),
           two("cli_command", Str(<<>>), "command", Str(cmd_terminate)),
           two("cli_command", None, "command", Str(cmd_Delete)),
           two("cli_command", Str(cmd_describe), "command", Str(cmd_terminate)),
           two("cli_command", Str(cmd_terminate), "command", Str(cmd_describe)),
           two("command", Str(cmd_terminate), "aws_command", Str(cmd_describe)),
           two("command", Int5, "aws_command", Str(cmd_terminate)) }

\* The command is_mutation_operation extracts from the arguments.
cli_command_of(arguments) ==
    or4(get(arguments, "cli_command", Str(<<>>)),
        get(arguments, "command", Str(<<>>)),
        get(arguments, "aws_command", Str(<<>>)),
        Str(<<>>))

any_keyword(keywords, text) ==
    \E k \in 1..Len(keywords) : contains(keywords[k], text)

Decision(raises, is_mutation, desc) ==
    [raises |-> raises, is_mutation |-> is_mutation, operation_desc |-> desc]

\* A classifier that looks for the mutation keywords first.
classify_command_mutation_first(arguments) ==
    LET cli_command == cli_command_of(arguments)
    IN  IF cli_command.type # "str" THEN Decision(TRUE, FALSE, <<>>)
        ELSE LET cli_lower == lower(cli_command.val)
             IN  IF any_keyword(mutation_keywords, cli_lower)
                 THEN Decision(FALSE, TRUE, cli_command.val)
                 ELSE Decision(FALSE, FALSE, <<>>)

\* A classifier that describes the operation by the lower-cased command.
classify_command_desc_lowered(arguments) ==
    LET cli_command == cli_command_of(arguments)
    IN  IF cli_command.type # "str" THEN Decision(TRUE, FALSE, <<>>)
        ELSE LET cli_lower == lower(cli_command.val)
             IN  IF any_keyword(readonly_keywords, cli_lower)
                 THEN Decision(FALSE, FALSE, <<>>)
                 ELSE IF any_keyword(mutation_keywords, cli_lower)
                 THEN Decision(FALSE, TRUE, cli_lower)
                 ELSE Decision(FALSE, FALSE, <<>>)

\* A classifier that takes a command without any keyword for a mutation.
classify_command_default_mutating(arguments) ==
    LET cli_command == cli_command_of(arguments)
    IN  IF cli_command.type # "str" THEN Decision(TRUE, FALSE, <<>>)
        ELSE LET cli_lower == lower(cli_command.val)
             IN  IF any_keyword(readonly_keywords, cli_lower)
                 THEN Decision(FALSE, FALSE, <<>>)
                 ELSE Decision(FALSE, TRUE, cli_command.val)

\* The call_aws branch of is_mutation_operation: read-only keywords first, then
\* mutation keywords, else read-only; .lower() raises on a value that is no str.
classify_command(arguments) ==
    LET cli_command == cli_command_of(arguments)
    IN  IF cli_command.type # "str" THEN Decision(TRUE, FALSE, <<>>)
        ELSE LET cli_lower == lower(cli_command.val)
             IN  IF any_keyword(readonly_keywords, cli_lower)
                 THEN Decision(FALSE, FALSE, <<>>)
                 ELSE IF any_keyword(mutation_keywords, cli_lower)
                 THEN Decision(FALSE, TRUE, cli_command.val)
                 ELSE Decision(FALSE, FALSE, <<>>)

\* A classifier that inspects the arguments of every tool.
is_mutation_operation_any_tool(tool_name, arguments) == classify_command(arguments)

\* is_mutation_operation(tool_name, arguments): (is_mutation, operation_desc),
\* or the AttributeError raised while classifying.
is_mutation_operation(tool_name, arguments) ==
    IF tool_name = "call_aws" THEN classify_command(arguments)
    ELSE Decision(FALSE, FALSE, <<>>)

\* What `await cl.AskUserMessage(...).send()` gives request_user_consent: a
\* reply with its text, None after the 60 s timeout, or an exception.
Replies == { <<"y","e","s">>, <<"y">>, <<" ","Y","e","s","\n">>, <<"O","K">>, <<"A","P","P","R","O","V","E">>, <<"n","o">>, <<>>, <<"y","e","s"," ","p","l","e","a","s","e">> }

UiAnswers ==
    { [kind |-> "reply", output |-> r] : r \in Replies }
    \cup { [kind |-> "timeout", output |-> <<>>], [kind |-> "error", output |-> <<>>] }

\* A consent gate that takes silence for an approval.
request_user_consent_silence_approves(res) ==
    IF res.kind = "reply" THEN lower(strip(res.output)) \in affirmative
    ELSE res.kind = "timeout"

\* A consent gate that compares the reply as it was typed.
request_user_consent_as_typed(res) ==
    IF res.kind = "reply" THEN res.output \in affirmative
    ELSE FALSE

\* A consent gate that lets the call through when the prompt itself failed.
request_user_consent_error_approves(res) ==
    IF res.kind = "reply" THEN lower(strip(res.output)) \in affirmative
    ELSE res.kind = "error"

\* request_user_consent: the bool it returns for what the UI answered.
request_user_consent(res) ==
    IF res.kind = "reply" THEN lower(strip(res.output)) \in affirmative
    ELSE FALSE

\* What `await original_t.ainvoke(kwargs)` gives: a result, or an exception
\* with its message.
ErrorMessages == { <<"U","n","a","u","t","h","o","r","i","z","e","d","O","p","e","r","a","t","i","o","n",":"," ","d","e","n","i","e","d">>,
                   <<"U","s","e","r"," ","i","s"," ","N","o","t"," ","A","u","t","h","o","r","i","z","e","d">>,
                   <<"u","n","a","u","t","h","o","r","i","z","e","d","o","p","e","r","a","t","i","o","n">>,
                   <<"t","i","m","e","d"," ","o","u","t">> }

ToolOutcomes ==
    { [kind |-> "ok", text |-> <<>>] }
    \cup { [kind |-> "raise", text |-> m] : m \in ErrorMessages }

\* A permission test that looks for "not authorized" in the message as it is.
is_permission_error_case_sensitive(error_msg) ==
    \/ contains(<<"U","n","a","u","t","h","o","r","i","z","e","d","O","p","e","r","a","t","i","o","n">>, error_msg)
    \/ contains(<<"n","o","t"," ","a","u","t","h","o","r","i","z","e","d">>, error_msg)

\* The permission test of wrapped_invoke's except clause on str(e)
is_permission_error(error_msg) ==
    \/ contains(<<"U","n","a","u","t","h","o","r","i","z","e","d","O","p","e","r","a","t","i","o","n">>, error_msg)
    \/ contains(<<"n","o","t"," ","a","u","t","h","o","r","i","z","e","d">>, lower(error_msg))

\* ------------------------------------------------------------------ state
VARIABLES
    enable_mcp,       \* ENABLE_MCP, read once from the environment
    config,           \* what the configuration file holds
    mcp_tools,        \* _mcp_tools
    mcp_ready,        \* _mcp_ready
    mcp_connections,  \* _mcp_connections
    pc,               \* per chat session: where its on_chat_start coroutine stands
    idx,              \* per chat session: position of the for loop over servers
    all_tools,        \* per chat session: the local all_tools of initialize_mcp
    status,           \* per chat session, per server: what this call did with it
    loaded,           \* per chat session, per server: the server_tools it returned
    outcome,          \* per chat session: the path by which initialize_mcp ended
    agent_tools,      \* per chat session: current_tools handed to build_agent
    fresh,            \* per chat session: no call had ended when this one began
    connectAttempts,  \* per server: how often stdio_client was entered for it
    wpc,              \* per chat session: where its wrapped_invoke coroutine stands
    call,             \* per chat session: the wrapped tool called and its kwargs
    decision,         \* per chat session: what is_mutation_operation returned
    answer,           \* per chat session: what the UI answered the consent prompt
    consent,          \* per chat session: consent_granted
    asked,            \* per chat session: consent prompts sent during the call
    invoked,          \* per chat session: the tools whose ainvoke the call reached
    result,           \* per chat session: what wrapped_invoke returned
    ui_sent,          \* per chat session: what the consent gate of the call sent to the UI
    tool_out,         \* per chat session: what the underlying tool's ainvoke gave
    active,           \* per chat session: the wrapper whose wrapped_invoke is running
    opened,           \* per server: the transports and sessions entered and not exited
    cpc,              \* where the cleanup_mcp coroutine stands
    cidx,             \* position of cleanup_mcp's for loop over _mcp_connections
    closeLog,         \* the __aexit__ calls of the running or last cleanup_mcp, in order
    torn_down,        \* cleanup_mcp has run to its end at least once
    spc,              \* where the stream_to_chainlit generator stands
    events,           \* how many events astream_events has delivered to it
    output_token_count, \* stream_to_chainlit's local output_token_count
    last_message,     \* stream_to_chainlit's local last_message
    yielded           \* the chunks stream_to_chainlit has yielded, in order

regVars == <<mcp_tools, mcp_ready, mcp_connections>>
envVars == <<enable_mcp, config>>
sessVars == <<pc, idx, all_tools, status, loaded, outcome, agent_tools, fresh>>
wrapVars == <<wpc, call, decision, answer, consent, asked, invoked, result, ui_sent,
          tool_out, active>>
downVars == <<cpc, cidx, closeLog, torn_down>>
streamVars == <<spc, events, output_token_count, last_message, yielded>>
vars == <<enable_mcp, config, mcp_tools, mcp_ready, mcp_connections, pc, idx,
          all_tools, status, loaded, outcome, agent_tools, fresh, connectAttempts,
          wpc, call, decision, answer, consent, asked, invoked, result, ui_sent,
          tool_out, active, opened, cpc, cidx, closeLog, torn_down,
          spc, events, output_token_count, last_message, yielded>>

\* Where a coroutine can stand: before on_chat_start ("idle"), at one of the
\* four awaits of a connection, at a handshake that is never answered
\* ("blocked"), or ended.
Awaiting == {"stdio", "session", "initialize", "load_tools"}
Ended == {"done", "raised"}

\* A wrap_mcp_tools whose coroutine reads the loop variables when it is called:
\* every wrapper then sees the last tool of the list.
wrap_mcp_tools_late_binding(tools) ==
    [i \in 1..Len(tools) |->
        [name |-> tools[i].name, t_name |-> tools[Len(tools)].name,
         original_t |-> tools[Len(tools)]]]

\* wrap_mcp_tools: one wrapper per tool, under the tool's name; the wrapper's
\* coroutine binds original_t and t_name as default arguments.
wrap_mcp_tools(tools) ==
    [i \in 1..Len(tools) |->
        [name |-> tools[i].name, t_name |-> tools[i].name, original_t |-> tools[i]]]

\* An on_chat_start that hands over the remote tools alone when there are some.
current_tools_remote_only(tools) ==
    IF tools # <<>> THEN wrap_mcp_tools(tools) ELSE base_tools

\* on_chat_start after initialize_mcp returned: the tools given to build_agent
current_tools(tools) ==
    base_tools \o (IF tools # <<>> THEN wrap_mcp_tools(tools) ELSE <<>>)

\* A guard that never skips: every call initializes again.
AlreadyInitialized_never == FALSE

\* `if _mcp_ready:` at the head of initialize_mcp
AlreadyInitialized == mcp_ready

\* The for loop meets entry j: the entries it passes without awaiting are those
\* without a command (continue) and those StdioServerParameters rejects (the
\* except clause); it stops at an entry to connect, at an entry that is no
\* mapping, or past the end.
RECURSIVE NextStop(_, _)
NextStop(servers, j) ==
    IF j > Len(servers) THEN j
    ELSE IF servers[j].kind \in {"nocommand", "badargs"} THEN NextStop(servers, j + 1)
    ELSE j

\* An except clause that leaves the loop: the entries after j are dropped.
AfterExcept_break(j) == Len(config.servers) + 1

\* The position the loop resumes from after the except clause handled a
\* failure of entry j: the next entry.
AfterExcept(j) == j + 1

\* `_mcp_ready = len(all_tools) > 0`
ReadyAfter(tools) == Len(tools) > 0

\* initialize_mcp from loop position j, with local all_tools = at, up to its next
\* await or its end; on_chat_start's synchronous tail follows a return.
LoopFrom(s, j, at, st) ==
    LET servers == config.servers
        k == NextStop(servers, j)
        st2 == [i \in ServerIds |->
                   IF i >= j /\ i < k
                   THEN (IF servers[i].kind = "nocommand" THEN "skipped" ELSE "failed")
                   ELSE st[i]]
    IN  /\ idx' = [idx EXCEPT ![s] = k]
        /\ all_tools' = [all_tools EXCEPT ![s] = at]
        /\ IF k > Len(servers)
           THEN /\ mcp_tools' = at
                /\ mcp_ready' = ReadyAfter(at)
                /\ pc' = [pc EXCEPT ![s] = "done"]
                /\ outcome' = [outcome EXCEPT ![s] = "completed"]
                /\ status' = [status EXCEPT ![s] = st2]
                /\ agent_tools' = [agent_tools EXCEPT ![s] = current_tools(at)]
                /\ UNCHANGED connectAttempts
           ELSE IF servers[k].kind = "malformed"
           THEN \* server_cfg.get raises AttributeError outside the try
                /\ pc' = [pc EXCEPT ![s] = "raised"]
                /\ outcome' = [outcome EXCEPT ![s] = "raised_entry"]
                /\ status' = [status EXCEPT ![s] = st2]
                /\ UNCHANGED <<mcp_tools, mcp_ready, agent_tools, connectAttempts>>
           ELSE \* await client_context.__aenter__()
                /\ pc' = [pc EXCEPT ![s] = "stdio"]
                /\ status' = [status EXCEPT ![s] = [st2 EXCEPT ![k] = "attempted"]]
                /\ connectAttempts' = [connectAttempts EXCEPT ![k] = @ + 1]
                /\ UNCHANGED <<mcp_tools, mcp_ready, agent_tools, outcome>>

\* initialize_mcp returns early with the registry reset; on_chat_start goes on.
EarlyReturn(s, how) ==
    /\ mcp_tools' = <<>>
    /\ mcp_ready' = FALSE
    /\ pc' = [pc EXCEPT ![s] = "done"]
    /\ outcome' = [outcome EXCEPT ![s] = how]
    /\ agent_tools' = [agent_tools EXCEPT ![s] = current_tools(<<>>)]
    /\ UNCHANGED <<idx, all_tools, status, connectAttempts>>

\* mcp_config.get / servers.items raises AttributeError: nothing catches it,
\* on_chat_start ends with the exception.
RaiseOut(s, how) ==
    /\ pc' = [pc EXCEPT ![s] = "raised"]
    /\ outcome' = [outcome EXCEPT ![s] = how]
    /\ UNCHANGED <<mcp_tools, mcp_ready, agent_tools, idx, all_tools, status,
                   connectAttempts>>

\* on_chat_start calls initialize_mcp: everything up to its first await.
\* Chat sessions are numbered in the order in which they start.
OnChatStart(s) ==
    /\ pc[s] = "idle"
    /\ \A t \in Sessions : t < s => pc[t] # "idle"
    /\ fresh' = [fresh EXCEPT ![s] = \A t \in Sessions : pc[t] \notin Ended]
    /\ UNCHANGED <<envVars, mcp_connections, loaded, wrapVars, streamVars, opened, downVars>>
    /\ IF AlreadyInitialized
       THEN /\ pc' = [pc EXCEPT ![s] = "done"]
            /\ outcome' = [outcome EXCEPT ![s] = "skipped"]
            /\ agent_tools' = [agent_tools EXCEPT ![s] = current_tools(mcp_tools)]
            /\ UNCHANGED <<mcp_tools, mcp_ready, idx, all_tools, status, connectAttempts>>
       ELSE IF ~enable_mcp THEN EarlyReturn(s, "disabled")
       ELSE IF config.kind \in {"missing", "invalid"} THEN EarlyReturn(s, "configerror")
       ELSE IF config.kind = "notmapping" THEN RaiseOut(s, "raised_config")
       ELSE IF config.kind = "nokey" \/ (config.kind = "mapping" /\ config.servers = <<>>)
            THEN EarlyReturn(s, "noservers")
       ELSE IF config.kind = "serverslist" THEN RaiseOut(s, "raised_servers")
       ELSE LoopFrom(s, 1, <<>>, status[s])

\* The except clause of the loop body: log, then the next entry.
ConnectFailed(s) ==
    LoopFrom(s, AfterExcept(idx[s]), all_tools[s], [status[s] EXCEPT ![idx[s]] = "failed"])

\* `read, write = await client_context.__aenter__()` ends: the subprocess is
\* up, or the launch raised (bad command).
StdioEntered(s) ==
    /\ pc[s] = "stdio"
    /\ UNCHANGED <<envVars, mcp_connections, fresh, loaded, wrapVars, streamVars, downVars>>
    /\ \/ /\ pc' = [pc EXCEPT ![s] = "session"]
          /\ opened' = [opened EXCEPT ![idx[s]].transports = @ + 1]
          /\ UNCHANGED <<mcp_tools, mcp_ready, idx, all_tools, status, outcome,
                         agent_tools, connectAttempts>>
       \/ /\ ConnectFailed(s)
          /\ UNCHANGED opened

\* `session = await session_context.__aenter__()` ends.
SessionEntered(s) ==
    /\ pc[s] = "session"
    /\ UNCHANGED <<envVars, mcp_connections, fresh, loaded, wrapVars, streamVars, downVars>>
    /\ \/ /\ pc' = [pc EXCEPT ![s] = "initialize"]
          /\ opened' = [opened EXCEPT ![idx[s]].sessions = @ + 1]
          /\ UNCHANGED <<mcp_tools, mcp_ready, idx, all_tools, status, outcome,
                         agent_tools, connectAttempts>>
       \/ /\ ConnectFailed(s)
          /\ UNCHANGED opened

\* `await session.initialize()` ends: the server answered the handshake, or
\* the handshake raised.
SessionInitialized(s) ==
    /\ pc[s] = "initialize"
    /\ UNCHANGED <<envVars, mcp_connections, fresh, loaded, wrapVars, streamVars, opened, downVars>>
    /\ \/ /\ pc' = [pc EXCEPT ![s] = "load_tools"]
          /\ UNCHANGED <<mcp_tools, mcp_ready, idx, all_tools, status, outcome,
                         agent_tools, connectAttempts>>
       \/ ConnectFailed(s)

\* `await session.initialize()` with a server that never answers the handshake:
\* the await carries no timeout, the coroutine stays there.
HandshakeNeverAnswered(s) ==
    /\ pc[s] = "initialize"
    /\ pc' = [pc EXCEPT ![s] = "blocked"]
    /\ UNCHANGED <<envVars, regVars, idx, all_tools, status, loaded, outcome,
                   agent_tools, fresh, connectAttempts, wrapVars, streamVars, opened, downVars>>

\* `server_tools = await load_mcp_tools(session)` ends: with the server's tools
\* (the connection is recorded, the tools added) or with an exception.
ToolsLoaded(s) ==
    /\ pc[s] = "load_tools"
    /\ UNCHANGED <<envVars, fresh, wrapVars, streamVars, opened, downVars>>
    /\ \/ \E server_tools \in OfferedTools(idx[s]) :
            /\ mcp_connections' =
                   Append(mcp_connections, [name |-> idx[s], tools |-> server_tools])
            /\ loaded' = [loaded EXCEPT ![s][idx[s]] = server_tools]
            /\ LoopFrom(s, idx[s] + 1, all_tools[s] \o server_tools,
                        [status[s] EXCEPT ![idx[s]] = "connected"])
       \/ /\ UNCHANGED <<mcp_connections, loaded>>
          /\ ConnectFailed(s)

\* No wrapped tool has been called.
NoWrapper == [name |-> "", t_name |-> "", original_t |-> Tool("", 0)]
NoCall == [tool |-> NoWrapper, kwargs |-> [k \in {} |-> None]]
NoAnswer == [kind |-> "none", output |-> <<>>]
NoResult == [kind |-> "none", text |-> <<>>]
NoOutcome == [kind |-> "none", text |-> <<>>]

NoCalls ==
    /\ wpc = [s \in Sessions |-> "idle"]
    /\ call = [s \in Sessions |-> NoCall]
    /\ decision = [s \in Sessions |-> Decision(FALSE, FALSE, <<>>)]
    /\ answer = [s \in Sessions |-> NoAnswer]
    /\ consent = [s \in Sessions |-> "none"]
    /\ asked = [s \in Sessions |-> 0]
    /\ invoked = [s \in Sessions |-> <<>>]
    /\ result = [s \in Sessions |-> NoResult]
    /\ ui_sent = [s \in Sessions |-> <<>>]
    /\ tool_out = [s \in Sessions |-> NoOutcome]
    /\ active = [s \in Sessions |-> NoWrapper]

\* No message is being answered: stream_to_chainlit has not been called.
NoMessage == [ai |-> FALSE, content |-> None]

NoStream ==
    /\ spc = "idle"
    /\ events = 0
    /\ output_token_count = 0
    /\ last_message = NoMessage
    /\ yielded = <<>>

\* cleanup_mcp has not been called.
NoTeardown ==
    /\ cpc = "idle"
    /\ cidx = 0
    /\ closeLog = <<>>
    /\ torn_down = FALSE

Init ==
    /\ NoCalls
    /\ enable_mcp \in BOOLEAN
    /\ config \in ConfigSources
    /\ mcp_tools = <<>>
    /\ mcp_ready = FALSE
    /\ mcp_connections = <<>>
    /\ pc = [s \in Sessions |-> "idle"]
    /\ idx = [s \in Sessions |-> 0]
    /\ all_tools = [s \in Sessions |-> <<>>]
    /\ status = [s \in Sessions |-> [i \in ServerIds |-> "none"]]
    /\ loaded = [s \in Sessions |-> [i \in ServerIds |-> <<>>]]
    /\ outcome = [s \in Sessions |-> "none"]
    /\ agent_tools = [s \in Sessions |-> <<>>]
    /\ fresh = [s \in Sessions |-> FALSE]
    /\ connectAttempts = [i \in ServerIds |-> 0]
    /\ opened = [i \in ServerIds |-> [transports |-> 0, sessions |-> 0]]
    /\ NoTeardown
    /\ NoStream

SessionStep(s) ==
    \/ OnChatStart(s)
    \/ StdioEntered(s)
    \/ SessionEntered(s)
    \/ SessionInitialized(s)
    \/ HandshakeNeverAnswered(s)
    \/ ToolsLoaded(s)

Next == \E s \in Sessions : SessionStep(s)

\* Chat sessions that start at any time, also while another one is connecting.
Spec == Init /\ [][Next]_vars

\* Chat sessions that start one after the other: on_chat_start is not called
\* while another session's on_chat_start is still running.
OnChatStartInSequence(s) ==
    /\ \A t \in Sessions : pc[t] \notin Awaiting
    /\ OnChatStart(s)

NextSeq ==
    \E s \in Sessions :
        \/ OnChatStartInSequence(s)
        \/ StdioEntered(s)
        \/ SessionEntered(s)
        \/ SessionInitialized(s)
        \/ HandshakeNeverAnswered(s)
        \/ ToolsLoaded(s)

SpecSeq == Init /\ [][NextSeq]_vars

\* The event loop runs every coroutine that can run; what a server answers is
\* not the loop's to decide, so no fairness is assumed for any one answer.
FairSpec == Spec /\ \A s \in Sessions : WF_vars(SessionStep(s))

\* ------------------------------------------------------------- teardown
\* cleanup_mcp is at one of its two awaits.
Closing == {"session_exit", "client_exit"}

\* The for loop of cleanup_mcp reaches position k of _mcp_connections: it awaits
\* the __aexit__ of that connection's session, or, past the last connection, does
\* `_mcp_connections.clear()` and returns.  _mcp_tools and _mcp_ready are not
\* assigned.
CleanupFrom(k) ==
    IF k <= Len(mcp_connections)
    THEN /\ cidx' = k
         /\ cpc' = "session_exit"
         /\ UNCHANGED <<mcp_connections, torn_down>>
    ELSE /\ cidx' = k - 1
         /\ cpc' = "done"
         /\ mcp_connections' = <<>>
         /\ torn_down' = TRUE

\* A cleanup_mcp that takes the first connection before it looks whether there
\* is one: it raises on an empty list.
CleanupMcp_needs_connection ==
    /\ cpc \in {"idle", "done"}
    /\ \A s \in Sessions : pc[s] \notin Awaiting
    /\ closeLog' = <<>>
    /\ IF mcp_connections = <<>>
       THEN /\ cpc' = "raised"
            /\ UNCHANGED <<cidx, mcp_connections, torn_down>>
       ELSE CleanupFrom(1)
    /\ UNCHANGED <<envVars, mcp_tools, mcp_ready, sessVars, connectAttempts, wrapVars, streamVars,
                   opened>>

\* cleanup_mcp is called, while no initialization is under way: everything up to
\* its first await.
CleanupMcp ==
    /\ cpc \in {"idle", "done"}
    /\ \A s \in Sessions : pc[s] \notin Awaiting
    /\ closeLog' = <<>>
    /\ CleanupFrom(1)
    /\ UNCHANGED <<envVars, mcp_tools, mcp_ready, sessVars, connectAttempts, wrapVars, streamVars,
                   opened>>

\* `await connection['session_context'].__aexit__(None, None, None)` ends: the
\* session is closed, or the call raised; the except clause logs and the loop
\* goes to the next connection, past the __aexit__ of the transport.
SessionExited ==
    /\ cpc = "session_exit"
    /\ \E ok \in BOOLEAN :
          /\ closeLog' = Append(closeLog, [conn |-> cidx, what |-> "session", ok |-> ok])
          /\ IF ok
             THEN /\ cpc' = "client_exit"
                  /\ opened' = [opened EXCEPT ![mcp_connections[cidx].name].sessions = @ - 1]
                  /\ UNCHANGED <<cidx, mcp_connections, torn_down>>
             ELSE /\ CleanupFrom(cidx + 1)
                  /\ UNCHANGED opened
    /\ UNCHANGED <<envVars, mcp_tools, mcp_ready, sessVars, connectAttempts, wrapVars, streamVars>>

\* `await connection['client_context'].__aexit__(None, None, None)` ends: the
\* transport is closed, or the call raised and the except clause logged it.
ClientExited ==
    /\ cpc = "client_exit"
    /\ \E ok \in BOOLEAN :
          /\ closeLog' = Append(closeLog, [conn |-> cidx, what |-> "transport", ok |-> ok])
          /\ opened' = IF ok
                       THEN [opened EXCEPT ![mcp_connections[cidx].name].transports = @ - 1]
                       ELSE opened
    /\ CleanupFrom(cidx + 1)
    /\ UNCHANGED <<envVars, mcp_tools, mcp_ready, sessVars, connectAttempts, wrapVars, streamVars>>

\* A chat session starts while no other one is connecting and cleanup_mcp is not
\* at one of its awaits.
OnChatStartBetweenTeardowns(s) ==
    /\ cpc \notin Closing
    /\ OnChatStartInSequence(s)

\* Chat sessions and calls of cleanup_mcp, one after the other in any order.
NextLife ==
    \/ \E s \in Sessions :
          \/ OnChatStartBetweenTeardowns(s)
          \/ StdioEntered(s)
          \/ SessionEntered(s)
          \/ SessionInitialized(s)
          \/ HandshakeNeverAnswered(s)
          \/ ToolsLoaded(s)
    \/ CleanupMcp
    \/ SessionExited
    \/ ClientExited

\* The process starts with MCP enabled and a configuration file that names
\* MaxServers servers, each with a command.
InitLife ==
    /\ Init
    /\ enable_mcp = TRUE
    /\ config = [kind |-> "mapping", servers |-> [i \in ServerIds |-> [kind |-> "command"]]]

SpecLife == InitLife /\ [][NextLife]_vars

\* cleanup_mcp is called while _mcp_connections is empty: before the first chat
\* session, or after initializations that connected nothing.
CleanupMcpNothingOpen ==
    /\ mcp_connections = <<>>
    /\ CleanupMcp

\* Chat sessions one after the other, for any configuration, and calls of
\* cleanup_mcp that find no connection to close.
NextIdleLife ==
    \/ \E s \in Sessions :
          \/ OnChatStartInSequence(s)
          \/ StdioEntered(s)
          \/ SessionEntered(s)
          \/ SessionInitialized(s)
          \/ HandshakeNeverAnswered(s)
          \/ ToolsLoaded(s)
    \/ CleanupMcpNothingOpen

SpecIdleLife == Init /\ [][NextIdleLife]_vars

\* ---------------------------------------------------- wrapped tool calls
initVars == <<enable_mcp, config, mcp_tools, mcp_ready, mcp_connections, pc, idx,
              all_tools, status, loaded, outcome, agent_tools, fresh, connectAttempts,
              opened>>

\* The wrapped tools among the tools of session s's agent.
WrappedTools(s) ==
    { agent_tools[s][k] : k \in {j \in 1..Len(agent_tools[s]) :
                                    "t_name" \in DOMAIN agent_tools[s][j]} }

\* A tool object that wrap_mcp_tools made.
IsWrapper(t) == "t_name" \in DOMAIN t

\* `await t.ainvoke(kwargs)`, called by the wrapper `caller`, up to the first
\* await at which it waits, and the wrapper that waits there.  A tool of a
\* server waits for the server.  A wrapped tool runs its wrapped_invoke: the
\* classifier may raise, a mutation waits at the consent prompt, and otherwise
\* wrapped_invoke goes on to the ainvoke of its own original_t.
RECURSIVE FirstAwait(_, _, _)
FirstAwait(t, kwargs, caller) ==
    IF ~IsWrapper(t) THEN [stop |-> "ainvoke", at |-> caller]
    ELSE LET d == is_mutation_operation(t.t_name, kwargs)
         IN  IF d.raises THEN [stop |-> "raised", at |-> t]
             ELSE IF d.is_mutation THEN [stop |-> "consent", at |-> t]
             ELSE FirstAwait(t.original_t, kwargs, t)

\* `result = await original_t.ainvoke(kwargs)` of the running wrapper is reached
\* and waits for the server.
ReachInvoke(s) ==
    /\ wpc' = [wpc EXCEPT ![s] = "ainvoke"]
    /\ invoked' = [invoked EXCEPT ![s] = Append(@, active'[s].original_t)]
    /\ UNCHANGED result

\* The call of session s, having sent `sent` to the UI, runs on to the stop f.
\* An exception of the classifier leaves the wrapper it arose in; when that
\* wrapper was itself called by a wrapper, the caller's except clause turns it
\* into the error text.
RunTo(s, f, sent) ==
    /\ active' = [active EXCEPT ![s] = f.at]
    /\ IF f.stop = "raised"
       THEN /\ IF f.at = call'[s].tool
               THEN /\ wpc' = [wpc EXCEPT ![s] = "raised"]
                    /\ UNCHANGED result
               ELSE /\ wpc' = [wpc EXCEPT ![s] = "returned"]
                    /\ result' = [result EXCEPT ![s] = [kind |-> "error", text |-> <<>>]]
            /\ ui_sent' = [ui_sent EXCEPT ![s] = sent]
            /\ UNCHANGED <<asked, invoked>>
       ELSE IF f.stop = "consent"
       THEN \* await request_user_consent(t_name, operation_desc): the gate
            \* sends its AskUserMessage and waits
            /\ wpc' = [wpc EXCEPT ![s] = "consent"]
            /\ asked' = [asked EXCEPT ![s] = @ + 1]
            /\ ui_sent' = [ui_sent EXCEPT ![s] = Append(sent, "ask")]
            /\ UNCHANGED <<invoked, result>>
       ELSE /\ ReachInvoke(s)
            /\ ui_sent' = [ui_sent EXCEPT ![s] = sent]
            /\ UNCHANGED asked

\* A wrapper that goes on to the tool whatever the consent gate returned.
GateOpen_always(consent_granted) == TRUE

\* `if not consent_granted:` lets the call through
GateOpen(consent_granted) == consent_granted

\* The agent calls wrapped tool w with kwargs: wrapped_invoke up to its first
\* await (the consent prompt, or the tool), or to the exception of the classifier.
WrappedInvoke(s, w, kwargs) ==
    LET d == is_mutation_operation(w.t_name, kwargs)
    IN  /\ wpc[s] = "idle"
        /\ call' = [call EXCEPT ![s] = [tool |-> w, kwargs |-> kwargs]]
        /\ decision' = [decision EXCEPT ![s] = d]
        /\ UNCHANGED <<initVars, downVars, streamVars, answer, consent, tool_out>>
        /\ RunTo(s, FirstAwait(w, kwargs, NoWrapper), ui_sent[s])

\* What request_user_consent sends to the UI between the answer to its prompt
\* and its return: it logs the outcome and sends nothing.
AfterAnswer(res) == <<>>

\* The consent prompt is answered (or times out, or fails): request_user_consent
\* returns, and wrapped_invoke cancels the call or goes on to the tool.
ConsentAnswered(s) ==
    /\ wpc[s] = "consent"
    /\ \E res \in UiAnswers :
          LET consent_granted == request_user_consent(res)
          IN  /\ answer' = [answer EXCEPT ![s] = res]
              /\ consent' = [consent EXCEPT ![s] =
                                IF consent_granted THEN "granted" ELSE "refused"]
              /\ UNCHANGED <<initVars, downVars, streamVars, call, decision, tool_out>>
              /\ IF GateOpen(consent_granted)
                 THEN \* await original_t.ainvoke(kwargs)
                      RunTo(s, FirstAwait(active[s].original_t, call[s].kwargs, active[s]),
                            ui_sent[s] \o AfterAnswer(res))
                 ELSE /\ wpc' = [wpc EXCEPT ![s] = "returned"]
                      /\ result' = [result EXCEPT ![s] =
                            [kind |-> "cancelled", text |-> decision[s].operation_desc]]
                      /\ ui_sent' = [ui_sent EXCEPT ![s] = @ \o AfterAnswer(res)]
                      /\ UNCHANGED <<invoked, asked, active>>

\* A wrapper that calls the tool a second time when its first call raised.
ToolAnswered_retry(s) ==
    /\ wpc[s] = "ainvoke"
    /\ \E out \in ToolOutcomes :
          /\ tool_out' = [tool_out EXCEPT ![s] = out]
          /\ IF out.kind = "raise" /\ Len(invoked[s]) < 2
             THEN /\ invoked' = [invoked EXCEPT ![s] = Append(@, call[s].tool.original_t)]
                  /\ UNCHANGED <<wpc, result>>
             ELSE /\ wpc' = [wpc EXCEPT ![s] = "returned"]
                  /\ result' = [result EXCEPT ![s] =
                        IF out.kind = "ok" THEN [kind |-> "value", text |-> <<>>]
                        ELSE [kind |-> "error", text |-> out.text]]
                  /\ UNCHANGED invoked
    /\ UNCHANGED <<initVars, downVars, streamVars, call, decision, answer, consent, asked, ui_sent, active>>

\* The underlying tool answers: its result is returned, or its exception is
\* turned into the permission message or the generic error message.
ToolAnswered(s) ==
    /\ wpc[s] = "ainvoke"
    /\ \E out \in ToolOutcomes :
          /\ tool_out' = [tool_out EXCEPT ![s] = out]
          /\ result' = [result EXCEPT ![s] =
                IF out.kind = "ok" THEN [kind |-> "value", text |-> <<>>]
                ELSE IF is_permission_error(out.text)
                     THEN [kind |-> "permission_error", text |-> out.text]
                     ELSE [kind |-> "error", text |-> out.text]]
    /\ wpc' = [wpc EXCEPT ![s] = "returned"]
    /\ UNCHANGED <<initVars, downVars, streamVars, call, decision, answer, consent, asked, invoked, ui_sent,
                   active>>

\* The agent has the outcome of the call; the session can call a tool again.
CallOver(s) ==
    /\ wpc[s] \in {"returned", "raised"}
    /\ wpc' = [wpc EXCEPT ![s] = "idle"]
    /\ call' = [call EXCEPT ![s] = NoCall]
    /\ decision' = [decision EXCEPT ![s] = Decision(FALSE, FALSE, <<>>)]
    /\ answer' = [answer EXCEPT ![s] = NoAnswer]
    /\ consent' = [consent EXCEPT ![s] = "none"]
    /\ asked' = [asked EXCEPT ![s] = 0]
    /\ invoked' = [invoked EXCEPT ![s] = <<>>]
    /\ result' = [result EXCEPT ![s] = NoResult]
    /\ ui_sent' = [ui_sent EXCEPT ![s] = <<>>]
    /\ tool_out' = [tool_out EXCEPT ![s] = NoOutcome]
    /\ active' = [active EXCEPT ![s] = NoWrapper]
    /\ UNCHANGED <<initVars, downVars, streamVars>>

RECURSIVE ConcatUpTo(_, _)
ConcatUpTo(f, n) == IF n = 0 THEN <<>> ELSE ConcatUpTo(f, n - 1) \o f[n]

\* The registry as the first chat session's initialize_mcp left it when every
\* configured server connected and at least one gave a tool; the later sessions
\* found it READY.
ReadyRegistry(f) ==
        /\ \A i \in ServerIds : f[i] \in OfferedTools(i)
        /\ ConcatUpTo(f, MaxServers) # <<>>
        /\ enable_mcp = TRUE
        /\ config = [kind |-> "mapping",
                     servers |-> [i \in ServerIds |-> [kind |-> "command"]]]
        /\ mcp_tools = ConcatUpTo(f, MaxServers)
        /\ mcp_ready = TRUE
        /\ mcp_connections = [i \in ServerIds |-> [name |-> i, tools |-> f[i]]]
        /\ pc = [s \in Sessions |-> "done"]
        /\ idx = [s \in Sessions |-> IF s = 1 THEN MaxServers + 1 ELSE 0]
        /\ all_tools = [s \in Sessions |-> IF s = 1 THEN ConcatUpTo(f, MaxServers) ELSE <<>>]
        /\ status = [s \in Sessions |-> [i \in ServerIds |->
                                            IF s = 1 THEN "connected" ELSE "none"]]
        /\ loaded = [s \in Sessions |-> [i \in ServerIds |-> IF s = 1 THEN f[i] ELSE <<>>]]
        /\ outcome = [s \in Sessions |-> IF s = 1 THEN "completed" ELSE "skipped"]
        /\ fresh = [s \in Sessions |-> s = 1]
        /\ connectAttempts = [i \in ServerIds |-> 1]
        /\ opened = [i \in ServerIds |-> [transports |-> 1, sessions |-> 1]]

InitReady ==
    \E f \in [ServerIds -> UNION {OfferedTools(i) : i \in ServerIds}] :
        /\ ReadyRegistry(f)
        /\ agent_tools = [s \in Sessions |-> current_tools(ConcatUpTo(f, MaxServers))]

InitWrap == NoCalls /\ NoTeardown /\ NoStream /\ InitReady

\* One wrapped tool call at a time: the agent of a session calls a tool when no
\* other call is under way.
WrappedInvokeInSequence(s) ==
    /\ \A t \in Sessions : wpc[t] = "idle"
    /\ \E w \in WrappedTools(s) : \E kwargs \in KwargsSet : WrappedInvoke(s, w, kwargs)

NextWrap ==
    \E s \in Sessions :
        \/ WrappedInvokeInSequence(s)
        \/ ConsentAnswered(s)
        \/ ToolAnswered(s)
        \/ CallOver(s)

SpecWrap == InitWrap /\ [][NextWrap]_vars

\* wrap_mcp_tools handed its own output: every tool is wrapped by a wrapper of
\* a wrapper.
WrappedTwice(tools) == wrap_mcp_tools(wrap_mcp_tools(tools))

\* A READY registry whose first session holds the tools wrapped once, as
\* on_chat_start wraps them, and whose other sessions hold the same tools after
\* a second pass through wrap_mcp_tools.
InitRewrap ==
    /\ NoCalls
    /\ NoTeardown
    /\ NoStream
    /\ \E f \in [ServerIds -> UNION {OfferedTools(i) : i \in ServerIds}] :
          /\ ReadyRegistry(f)
          /\ agent_tools = [s \in Sessions |->
                               base_tools \o (IF s = 1 THEN wrap_mcp_tools(mcp_tools)
                                              ELSE WrappedTwice(mcp_tools))]

SpecRewrap == InitRewrap /\ [][NextWrap]_vars

\* What the agents pass in the concurrent runs: one read-only command and one
\* mutating command.
ConcurrentKwargs ==
    { one("cli_command", Str(cmd_describe)), one("cli_command", Str(cmd_terminate)) }

\* The AWS API server gave its tool; every other server connected and gave none.
OnlyAwsApi == [i \in ServerIds |-> IF i = 1 THEN << Tool("call_aws", 1) >> ELSE <<>>]

\* The first chat session has made the registry READY; the other chat sessions
\* have not started.
InitTogether ==
    /\ NoCalls
    /\ NoTeardown
    /\ NoStream
    /\ enable_mcp = TRUE
    /\ config = [kind |-> "mapping",
                 servers |-> [i \in ServerIds |-> [kind |-> "command"]]]
    /\ mcp_tools = ConcatUpTo(OnlyAwsApi, MaxServers)
    /\ mcp_ready = TRUE
    /\ mcp_connections = [i \in ServerIds |-> [name |-> i, tools |-> OnlyAwsApi[i]]]
    /\ pc = [s \in Sessions |-> IF s = 1 THEN "done" ELSE "idle"]
    /\ idx = [s \in Sessions |-> IF s = 1 THEN MaxServers + 1 ELSE 0]
    /\ all_tools = [s \in Sessions |->
                       IF s = 1 THEN ConcatUpTo(OnlyAwsApi, MaxServers) ELSE <<>>]
    /\ status = [s \in Sessions |-> [i \in ServerIds |->
                                        IF s = 1 THEN "connected" ELSE "none"]]
    /\ loaded = [s \in Sessions |-> [i \in ServerIds |->
                                        IF s = 1 THEN OnlyAwsApi[i] ELSE <<>>]]
    /\ outcome = [s \in Sessions |-> IF s = 1 THEN "completed" ELSE "none"]
    /\ agent_tools = [s \in Sessions |->
                         IF s = 1 THEN current_tools(ConcatUpTo(OnlyAwsApi, MaxServers))
                         ELSE <<>>]
    /\ fresh = [s \in Sessions |-> s = 1]
    /\ connectAttempts = [i \in ServerIds |-> 1]
    /\ opened = [i \in ServerIds |-> [transports |-> 1, sessions |-> 1]]

\* A consent gate that holds the event loop while it waits for the reply (a
\* blocking prompt): no agent gets to call a tool while a prompt is open.
WrappedInvokeAnyTime_one_prompt(s) ==
    /\ \A t \in Sessions : wpc[t] # "consent"
    /\ pc[s] = "done"
    /\ \E w \in WrappedTools(s) : \E kwargs \in ConcurrentKwargs : WrappedInvoke(s, w, kwargs)

\* The agent of a started session calls a wrapped tool, whatever the calls of
\* the other sessions are waiting for.
WrappedInvokeAnyTime(s) ==
    /\ pc[s] = "done"
    /\ \E w \in WrappedTools(s) : \E kwargs \in ConcurrentKwargs : WrappedInvoke(s, w, kwargs)

\* Chat sessions that start and call tools at any time: each coroutine runs from
\* one await to the next, in any interleaving.
NextTogether ==
    \E s \in Sessions :
        \/ OnChatStart(s)
        \/ WrappedInvokeAnyTime(s)
        \/ ConsentAnswered(s)
        \/ ToolAnswered(s)
        \/ CallOver(s)

SpecTogether == InitTogether /\ [][NextTogether]_vars

\* ------------------------------------------------- stream_to_chainlit
MaxEvents == 3

\* Texts: a piece of a streamed answer, and a whole answer.
Part == <<"4","2">>
AnswerText == <<"4","2"," ","U","S","D">>

\* A message content that is a list of blocks; a block is a text block (a dict
\* with type "text") or a tool_use block.
Blocks(q) == [type |-> "list", val |-> q]
TextBlock(chars) == [type |-> "text", text |-> chars]
ToolUseBlock == [type |-> "tool_use", text |-> <<>>]

\* `if content:` on None, a str or a list
nonempty(v) == v.type \in {"str", "list"} /\ v.val # <<>>

\* A usage record: absent, or present with its output_tokens.
NoUsage == [present |-> FALSE, output_tokens |-> 0]
Usage(n) == [present |-> TRUE, output_tokens |-> n]
UsageValues == { NoUsage, Usage(0), Usage(5) }

\* The content of a chunk of an on_chat_model_stream event.
ChunkContents ==
    { None, Str(<<>>), Str(Part), Blocks(<< TextBlock(Part) >>), Blocks(<< ToolUseBlock >>),
      Blocks(<< TextBlock(<<>>) >>) }

\* The last message of the output of an on_chain_end event: an AIMessage with
\* its content, or nothing that is an AIMessage.
FinalMessages ==
    { NoMessage }
    \cup { [ai |-> TRUE, content |-> c] :
             c \in { Str(<<>>), Str(AnswerText), Blocks(<< TextBlock(AnswerText) >>),
                     Blocks(<< ToolUseBlock >>) } }

\* A yielded chunk, with the place of the yield statement.
Chunk(from, chars) == [from |-> from, text |-> chars]

RECURSIVE MapChunks(_, _)
MapChunks(from, blocks) ==
    IF blocks = <<>> THEN <<>>
    ELSE << Chunk(from, Head(blocks).text) >> \o MapChunks(from, Tail(blocks))

IsStreamedText(block) == block.type = "text" /\ block.text # <<>>
IsText(block) == block.type = "text"

\* The chunks the on_chat_model_stream branch yields for a content: the str
\* itself, or the non-empty text of every text block of a list.
stream_chunks(content) ==
    IF ~nonempty(content) THEN <<>>
    ELSE IF content.type = "list"
         THEN MapChunks("stream", SelectSeq(content.val, IsStreamedText))
         ELSE << Chunk("stream", content.val) >>

\* The chunks yielded after the loop for the content of last_message: the str,
\* or the text of every text block of a list.
fallback_chunks(content) ==
    IF content.type = "list"
    THEN MapChunks("fallback", SelectSeq(content.val, IsText))
    ELSE << Chunk("fallback", content.val) >>

\* `if usage.output_tokens: output_token_count = usage.output_tokens`
truthy_tokens(usage, count) ==
    IF usage.present /\ usage.output_tokens # 0 THEN usage.output_tokens ELSE count

\* `output_token_count = usage.output_tokens` / `usage.get('output_tokens', count)`
given_tokens(usage, count) ==
    IF usage.present THEN usage.output_tokens ELSE count

\* on_message calls stream_to_chainlit: the locals are set and the generator
\* waits for the first event of agent.astream_events.
StreamToChainlit ==
    /\ spc \in {"idle", "done"}
    /\ spc' = "streaming"
    /\ events' = 0
    /\ output_token_count' = 0
    /\ last_message' = NoMessage
    /\ yielded' = <<>>
    /\ UNCHANGED <<initVars, downVars, wrapVars>>

\* An on_chat_model_stream event: the text of the chunk is yielded and counted,
\* then a usage record on the chunk replaces the count.
ChatModelStream ==
    /\ spc = "streaming"
    /\ events < MaxEvents
    /\ \E content \in ChunkContents, usage \in UsageValues :
          LET out == stream_chunks(content)
          IN  /\ yielded' = yielded \o out
              /\ output_token_count' = given_tokens(usage, output_token_count + Len(out))
    /\ events' = events + 1
    /\ UNCHANGED <<initVars, downVars, wrapVars, spc, last_message>>

\* An on_chat_model_end event: usage_metadata, then response_metadata['usage'],
\* of the output replace the count.
ChatModelEnd ==
    /\ spc = "streaming"
    /\ events < MaxEvents
    /\ \E usage_metadata \in UsageValues, usage \in UsageValues :
          output_token_count' =
              given_tokens(usage, truthy_tokens(usage_metadata, output_token_count))
    /\ events' = events + 1
    /\ UNCHANGED <<initVars, downVars, wrapVars, spc, last_message, yielded>>

\* An on_chain_end event: a last message that is an AIMessage becomes
\* last_message, and its usage_metadata replaces the count.
ChainEnd ==
    /\ spc = "streaming"
    /\ events < MaxEvents
    /\ \E last_msg \in FinalMessages, usage \in UsageValues :
          IF last_msg.ai
          THEN /\ last_message' = last_msg
               /\ output_token_count' = truthy_tokens(usage, output_token_count)
          ELSE UNCHANGED <<last_message, output_token_count>>
    /\ events' = events + 1
    /\ UNCHANGED <<initVars, downVars, wrapVars, spc, yielded>>

\* An event of another kind: no branch takes it.
OtherEvent ==
    /\ spc = "streaming"
    /\ events < MaxEvents
    /\ events' = events + 1
    /\ UNCHANGED <<initVars, downVars, wrapVars, spc, output_token_count, last_message,
                   yielded>>

\* astream_events is exhausted: when the count is zero and last_message has a
\* content, the content is yielded; the usage is logged and the generator ends.
StreamEnded ==
    /\ spc = "streaming"
    /\ spc' = "done"
    /\ IF output_token_count = 0 /\ last_message.ai /\ nonempty(last_message.content)
       THEN yielded' = yielded \o fallback_chunks(last_message.content)
       ELSE UNCHANGED yielded
    /\ UNCHANGED <<initVars, downVars, wrapVars, events, output_token_count, last_message>>

\* astream_events raises an Exception: the except clause yields the error text
\* and the generator ends.
StreamRaised ==
    /\ spc = "streaming"
    /\ spc' = "done"
    /\ yielded' = Append(yielded, Chunk("error", <<>>))
    /\ UNCHANGED <<initVars, downVars, wrapVars, events, output_token_count, last_message>>

\* A READY registry with nothing under way.
InitStream ==
    /\ InitWrap
    /\ mcp_tools = << Tool("call_aws", 1) >>

NextStream ==
    \/ StreamToChainlit
    \/ ChatModelStream
    \/ ChatModelEnd
    \/ ChainEnd
    \/ OtherEvent
    \/ StreamEnded
    \/ StreamRaised

\* One message answered after the other, each by a run of stream_to_chainlit
\* over at most MaxEvents events.
SpecStream == InitStream /\ [][NextStream]_vars

\* ------------------------------------------------------------ properties
InSeq(x, q) == \E k \in 1..Len(q) : q[k] = x

registry == <<mcp_tools, mcp_ready, mcp_connections>>

\* The step in which session s calls on_chat_start (and so initialize_mcp).
Calls(s) == pc[s] = "idle" /\ pc'[s] # "idle"

\* C1: a call classified as mutating reaches the underlying tool only after the
\* consent gate of that call returned approval on an affirmative reply; after a
\* refusal, a timeout or an error the tool is not invoked.
C1_MutationNeedsApproval ==
    \A s \in Sessions :
        /\ (decision[s].is_mutation /\ invoked[s] # <<>>)
              => /\ consent[s] = "granted"
                 /\ answer[s].kind = "reply"
                 /\ lower(strip(answer[s].output)) \in affirmative
        /\ (consent[s] = "refused" \/ answer[s].kind \in {"timeout", "error"})
              => invoked[s] = <<>>

\* A mutating call that was approved and reached the tool.
C1_Witness ==
    \E s \in Sessions :
        /\ decision[s].is_mutation
        /\ consent[s] = "granted"
        /\ invoked[s] = <<call[s].tool.original_t>>
        /\ wpc[s] = "returned"

\* C2: a call of a tool other than call_aws is classified read-only, whatever
\* its arguments, and no consent prompt is sent during it.
C2_OtherToolsNeverAsk ==
    \A s \in Sessions :
        (wpc[s] # "idle" /\ call[s].tool.t_name # "call_aws")
            => /\ decision[s] = Decision(FALSE, FALSE, <<>>)
               /\ asked[s] = 0
               /\ answer[s] = NoAnswer
               /\ consent[s] = "none"

\* A tool of the Cost Explorer server called with a command that call_aws
\* would have been asked about, and executed.
C2_Witness ==
    \E s \in Sessions :
        /\ call[s].tool.t_name = "get_cost_and_usage"
        /\ call[s].kwargs = one("command", Str(cmd_terminate))
        /\ invoked[s] # <<>>
        /\ wpc[s] = "returned"

\* C3: when every session that called initialize_mcp did so before any call had
\* ended (the registry was uninitialized), no server is connected more than once.
C3_ConcurrentInitConnectsOnce ==
    (\A s \in Sessions : pc[s] # "idle" => fresh[s])
        => \A i \in ServerIds : connectAttempts[i] <= 1

\* C4: a call of initialize_mcp made while the registry is READY connects to no
\* server, leaves _mcp_tools, _mcp_ready and _mcp_connections as they were, and
\* has returned by its first step.
C4_ReadyReinitIsNoop ==
    [][\A s \in Sessions :
          (Calls(s) /\ mcp_ready)
              => /\ pc'[s] = "done"
                 /\ registry' = registry
                 /\ connectAttempts' = connectAttempts]_vars

\* A session that called initialize_mcp while the registry was READY: every
\* server connected so far was connected once, by the session before it.
C4_Witness ==
    \E s \in Sessions :
        /\ outcome[s] = "skipped"
        /\ mcp_ready
        /\ \E i \in ServerIds : connectAttempts[i] = 1
        /\ \A i \in ServerIds : connectAttempts[i] <= 1

\* An earlier initialization ended DEGRADED: it returned with the ready flag
\* false because the configuration was missing or empty or no server was usable.
EndedDegraded ==
    /\ ~mcp_ready
    /\ \E t \in Sessions :
          pc[t] = "done" /\ outcome[t] \in {"configerror", "noservers", "completed"}

\* C5: a call of initialize_mcp made after an initialization ended DEGRADED
\* connects to no server and changes nothing of the registry.
C5_DegradedReinitIsNoop ==
    [][\A s \in Sessions :
          (Calls(s) /\ EndedDegraded)
              => /\ registry' = registry
                 /\ connectAttempts' = connectAttempts]_vars

\* C6: when an initialization ends, the ready flag is true exactly if this
\* initialization connected at least one server.
C6_ReadyIffServerConnected ==
    [][\A s \in Sessions :
          (pc[s] # "done" /\ pc'[s] = "done" /\ outcome'[s] # "skipped")
              => (mcp_ready' <=> \E i \in ServerIds : status'[s][i] = "connected")]_vars

\* C7: a server whose connection raised stops nothing: every entry with a
\* command that the loop has passed was attempted, and when the call completes
\* the tools of every server that connected are in _mcp_tools and, wrapped, in the
\* tools handed to the agent, together with the local tools.
C7_FailureDoesNotStopOthers ==
    \A s \in Sessions :
        /\ \A i \in 1..Len(config.servers) :
              (i < idx[s] /\ config.servers[i].kind = "command")
                  => status[s][i] \in {"failed", "connected"}
        /\ (pc[s] = "done" /\ outcome[s] = "completed")
              => /\ \A i \in ServerIds :
                       status[s][i] = "connected"
                           => \A k \in 1..Len(loaded[s][i]) :
                                 /\ InSeq(loaded[s][i][k], mcp_tools)
                                 /\ \E w \in 1..Len(agent_tools[s]) :
                                       agent_tools[s][w] =
                                           wrap_mcp_tools(<<loaded[s][i][k]>>)[1]
                 /\ \A k \in 1..Len(base_tools) : InSeq(base_tools[k], agent_tools[s])

\* Server A's connection raised, server B after it connected and gave a tool,
\* and the call completed.
C7_Witness ==
    \E s \in Sessions : \E a, b \in ServerIds :
        /\ a < b
        /\ pc[s] = "done" /\ outcome[s] = "completed"
        /\ config.servers[a].kind = "command" /\ status[s][a] = "failed"
        /\ status[s][b] = "connected" /\ loaded[s][b] # <<>>

\* C8: no failure of a single server entry leaves initialize_mcp as an exception.
C8_NoEntryFailureEscapes ==
    \A s \in Sessions : outcome[s] # "raised_entry"

\* C9: with a configuration that is missing, unreadable, not a mapping or
\* without the server collection, initialization raises nothing and ends with no
\* remote tool and the ready flag false; the session has the local tools only.
C9_BadConfigDegrades ==
    config.kind \in {"missing", "invalid", "notmapping", "nokey"}
        => \A s \in Sessions :
              /\ pc[s] # "raised"
              /\ pc[s] = "done"
                    => mcp_tools = <<>> /\ ~mcp_ready /\ agent_tools[s] = base_tools

\* C10: every initialization eventually ends, whatever a server does.
C10_InitializationEnds ==
    <>(\A s \in Sessions : pc[s] \in Ended)

\* The outcomes with which initialize_mcp returns to on_chat_start: the guard
\* skipped it, MCP is disabled, the configuration is missing or unreadable, it
\* names no server, or the loop over the servers ran to its end.
ReturnedOutcomes == {"skipped", "disabled", "configerror", "noservers", "completed"}

\* C11: whenever initialize_mcp returned, by whichever of its paths and with
\* whatever servers connected, the session's agent was built, and the tools it
\* was built with contain the two local tools.
C11_LocalToolsAlwaysHanded ==
    \A s \in Sessions :
        /\ outcome[s] \in ReturnedOutcomes => pc[s] = "done"
        /\ pc[s] = "done"
              => \A k \in 1..Len(base_tools) : InSeq(base_tools[k], agent_tools[s])

\* Every configured server was tried and none connected: the agent has the
\* local tools and nothing else.
C11_Witness ==
    \E s \in Sessions :
        /\ pc[s] = "done" /\ outcome[s] = "completed"
        /\ \E i \in 1..Len(config.servers) : status[s][i] = "failed"
        /\ \A i \in ServerIds : status[s][i] # "connected"
        /\ agent_tools[s] = base_tools

\* C12: the tools an agent is built with carry pairwise different names.
C12_NoTwoToolsShareAName ==
    \A s \in Sessions :
        pc[s] = "done"
            => \A j, k \in 1..Len(agent_tools[s]) :
                  j # k => agent_tools[s][j].name # agent_tools[s][k].name

\* A call of the command-execution tool is under way or over in session s, and
\* the command extracted from its arguments is a str.
CommandCall(s) ==
    /\ wpc[s] # "idle"
    /\ call[s].tool.t_name = "call_aws"
    /\ cli_command_of(call[s].kwargs).type = "str"

\* The extracted command of session s's call, and whether its lower-cased text
\* holds a keyword of the list.
Extracted(s) == cli_command_of(call[s].kwargs).val
Holds(keywords, s) == \E k \in 1..Len(keywords) : contains(keywords[k], lower(Extracted(s)))

\* C13: a call_aws call whose lower-cased command holds a read-only keyword is
\* classified read-only, also when the command holds a mutation keyword; no
\* consent prompt is sent for it.
C13_ReadOnlyKeywordWins ==
    \A s \in Sessions :
        (CommandCall(s) /\ Holds(readonly_keywords, s))
            => /\ decision[s] = Decision(FALSE, FALSE, <<>>)
               /\ asked[s] = 0

\* "describe and then delete" given to call_aws: it holds describe and delete,
\* was classified read-only and ran without a prompt.
C13_Witness ==
    \E s \in Sessions :
        /\ CommandCall(s)
        /\ Extracted(s) = cmd_describe_delete
        /\ Holds(readonly_keywords, s) /\ Holds(mutation_keywords, s)
        /\ ~decision[s].is_mutation
        /\ invoked[s] # <<>> /\ wpc[s] = "returned"

\* C14: a call_aws call whose command holds no read-only keyword and at least
\* one mutation keyword is classified mutating, and the operation description is
\* the extracted command as it was written.
C14_MutationKeywordClassifiesMutating ==
    \A s \in Sessions :
        (CommandCall(s) /\ ~Holds(readonly_keywords, s) /\ Holds(mutation_keywords, s))
            => decision[s] = Decision(FALSE, TRUE, Extracted(s))

\* "EC2 Delete-Volume" under the key command, the key cli_command being None:
\* classified mutating, described by the command in its own spelling.
C14_Witness ==
    \E s \in Sessions :
        /\ CommandCall(s)
        /\ call[s].kwargs = two("cli_command", None, "command", Str(cmd_Delete))
        /\ decision[s].is_mutation
        /\ decision[s].operation_desc = cmd_Delete
        /\ decision[s].operation_desc # lower(cmd_Delete)
        /\ asked[s] = 1

\* C15: a call_aws call whose command holds neither a read-only nor a mutation
\* keyword is classified read-only and goes to the tool without a consent prompt.
C15_NoKeywordDefaultsReadOnly ==
    \A s \in Sessions :
        (CommandCall(s) /\ ~Holds(readonly_keywords, s) /\ ~Holds(mutation_keywords, s))
            => /\ decision[s] = Decision(FALSE, FALSE, <<>>)
               /\ asked[s] = 0 /\ answer[s] = NoAnswer /\ consent[s] = "none"
               /\ wpc[s] \in {"ainvoke", "returned"}
               /\ invoked[s] = <<call[s].tool.original_t>>

\* "s3 rm s3://b --recursive" holds no keyword of either list: it ran unasked.
C15_Witness ==
    \E s \in Sessions :
        /\ CommandCall(s)
        /\ Extracted(s) = cmd_remove
        /\ ~Holds(readonly_keywords, s) /\ ~Holds(mutation_keywords, s)
        /\ asked[s] = 0
        /\ invoked[s] # <<>> /\ wpc[s] = "returned"

\* The alias keys under which the classifier looks for the command.
AliasKeys == {"cli_command", "command", "aws_command"}

\* str(arguments) of a Python dict: the keys in the order in which the mapping
\* holds them, each value by its repr.
KeyOrder == <<"cli_command", "command", "aws_command", "query">>
KeyText(key) ==
    CASE key = "cli_command" -> <<"c","l","i","_","c","o","m","m","a","n","d">>
      [] key = "command" -> <<"c","o","m","m","a","n","d">>
      [] key = "aws_command" -> <<"a","w","s","_","c","o","m","m","a","n","d">>
      [] key = "query" -> <<"q","u","e","r","y">>

repr(v) ==
    IF v.type = "str" THEN <<"'">> \o v.val \o <<"'">>
    ELSE IF v.type = "none" THEN <<"N","o","n","e">>
    ELSE v.val

RECURSIVE items_text(_, _, _)
items_text(arguments, j, first) ==
    IF j > Len(KeyOrder) THEN <<>>
    ELSE IF KeyOrder[j] \notin DOMAIN arguments THEN items_text(arguments, j + 1, first)
    ELSE (IF first THEN <<>> ELSE <<",", " ">>)
         \o <<"'">> \o KeyText(KeyOrder[j]) \o <<"'", ":", " ">> \o repr(arguments[KeyOrder[j]])
         \o items_text(arguments, j + 1, FALSE)

str_of(arguments) == <<"{">> \o items_text(arguments, 1, TRUE) \o <<"}">>

\* No alias key of the arguments holds a command (each is absent, None or "").
NoAliasHolds(arguments) ==
    \A key \in AliasKeys : ~truthy(get(arguments, key, Str(<<>>)))

\* C16: when no alias key holds a command, a call_aws call is classified on the
\* text of str(arguments): mutating exactly if that text, lower-cased, holds a
\* mutation keyword and no read-only keyword.
C16_FallsBackToArgumentDump ==
    \A s \in Sessions :
        (wpc[s] # "idle" /\ call[s].tool.t_name = "call_aws" /\ NoAliasHolds(call[s].kwargs))
            => LET dump == lower(str_of(call[s].kwargs))
               IN  /\ ~decision[s].raises
                   /\ decision[s].is_mutation
                          <=> (/\ ~any_keyword(readonly_keywords, dump)
                               /\ any_keyword(mutation_keywords, dump))

\* The consent gate of session s's call has returned.
GateReturned(s) == consent[s] # "none"

\* C17: the consent gate returns approval exactly when a reply arrived whose
\* text, without the surrounding whitespace and in lower case, is yes, y,
\* approve or ok; any other reply and a timeout give denial.
C17_ApprovalExactlyOnAffirmativeReply ==
    \A s \in Sessions :
        GateReturned(s)
            => /\ consent[s] = "granted"
                    <=> /\ answer[s].kind = "reply"
                        /\ lower(strip(answer[s].output))
                               \in { <<"y","e","s">>, <<"y">>, <<"a","p","p","r","o","v","e">>,
                                     <<"o","k">> }
               /\ consent[s] # "granted" => consent[s] = "refused"
               /\ answer[s].kind = "timeout" => consent[s] = "refused"

\* The reply " Yes" followed by a newline was taken for an approval.
C17_Witness ==
    \E s \in Sessions :
        /\ answer[s] = [kind |-> "reply", output |-> <<" ","Y","e","s","\n">>]
        /\ consent[s] = "granted"
        /\ invoked[s] # <<>>

\* C18: when the prompt round-trip raised, the consent gate returned denial:
\* the wrapper did not end with an exception, the call was cancelled and the
\* tool not invoked.
C18_PromptErrorDenies ==
    \A s \in Sessions :
        answer[s].kind = "error"
            => /\ consent[s] = "refused"
               /\ wpc[s] = "returned"
               /\ result[s].kind = "cancelled"
               /\ invoked[s] = <<>>

\* The prompt of a mutating call raised and the call was cancelled.
C18_Witness ==
    \E s \in Sessions :
        /\ decision[s].is_mutation
        /\ answer[s].kind = "error"
        /\ consent[s] = "refused"
        /\ result[s].kind = "cancelled"

\* C19: when the consent gate has returned, whatever the outcome, the last
\* thing it sent to the UI is a confirmation or a cancellation message.
C19_OutcomeReportedToUi ==
    \A s \in Sessions :
        GateReturned(s)
            => /\ ui_sent[s] # <<>>
               /\ ui_sent[s][Len(ui_sent[s])] \in {"confirmation", "cancellation"}

\* C20: no invocation of a wrapped tool ends with an exception.
C20_NoExceptionLeavesWrapper ==
    \A s \in Sessions : wpc[s] # "raised"

C22_ToolFailureBecomesErrorText ==
    \A s \in Sessions :
        tool_out[s].kind = "raise"
            => /\ wpc[s] = "returned"
               /\ result[s].kind \in {"permission_error", "error"}
               /\ result[s].text = tool_out[s].text
               /\ result[s].kind = "permission_error"
                    <=> \/ contains(<<"U","n","a","u","t","h","o","r","i","z","e","d",
                                      "O","p","e","r","a","t","i","o","n">>, tool_out[s].text)
                        \/ contains(<<"n","o","t"," ","a","u","t","h","o","r","i","z","e","d">>,
                                    lower(tool_out[s].text))

\* The tool raised "User is Not Authorized": the permission-error text came back.
C22_Witness ==
    \E s \in Sessions :
        /\ tool_out[s] = [kind |-> "raise",
                          text |-> <<"U","s","e","r"," ","i","s"," ","N","o","t"," ",
                                     "A","u","t","h","o","r","i","z","e","d">>]
        /\ result[s].kind = "permission_error"
        /\ wpc[s] = "returned"

\* C23: during one invocation of a wrapped tool the underlying tool is invoked
\* at most once, also after it raised; when the invocation is over and the tool
\* had been reached, it was called exactly once.
C23_ToolInvokedAtMostOnce ==
    \A s \in Sessions :
        /\ Len(invoked[s]) <= 1
        /\ tool_out[s].kind # "none"
              => /\ invoked[s] = <<call[s].tool.original_t>>
                 /\ wpc[s] = "returned"

\* An approved mutating call whose tool raised: the call is over, with the
\* error text, after one call of the tool.
C23_Witness ==
    \E s \in Sessions :
        /\ decision[s].is_mutation /\ consent[s] = "granted"
        /\ tool_out[s].kind = "raise"
        /\ wpc[s] = "returned"
        /\ Len(invoked[s]) = 1

\* C24: with tools wrapped twice as with tools wrapped once, a call sends at
\* most one consent prompt, exactly one when it is mutating and its gate has
\* returned, and invokes the tool of the server at most once.
C24_WrappedTwiceAsksOnce ==
    \A s \in Sessions :
        /\ asked[s] <= 1
        /\ Len(invoked[s]) <= 1
        /\ decision[s].is_mutation /\ wpc[s] # "idle" => asked[s] = 1
        /\ invoked[s] # <<>> => ~IsWrapper(invoked[s][1])

\* The connections of server i that _mcp_connections holds.
Recorded(i) ==
    Cardinality({k \in 1..Len(mcp_connections) : mcp_connections[k].name = i})

\* C30: when no initialization is under way, every transport and every session
\* that an initialization entered and nothing exited is recorded in
\* _mcp_connections: none is open and unrecorded.
C30_NothingOpenedIsUnrecorded ==
    (\A s \in Sessions : pc[s] \notin Awaiting \cup {"blocked"})
        => \A i \in ServerIds :
              /\ opened[i].transports = Recorded(i)
              /\ opened[i].sessions = Recorded(i)

\* C25: teardown closes the connections in reverse order of acquisition: of two
\* connections, the one appended later to _mcp_connections is closed first, so
\* the positions cleanup_mcp has closed so far never increase.
C25_ClosedInReverseOrder ==
    \A m, n \in DOMAIN closeLog :
        m < n => closeLog[m].conn >= closeLog[n].conn

\* C26: when teardown of a READY registry returns, it has called the exit of the
\* session and the exit of the transport of every connection it found, whichever
\* of these calls raised, and _mcp_connections is empty.
C26_EveryConnectionClosed ==
    [][ (cpc \in Closing /\ cpc' = "done" /\ mcp_ready) =>
            /\ mcp_connections' = <<>>
            /\ \A k \in 1..cidx' :
                  /\ \E m \in DOMAIN closeLog' :
                        closeLog'[m].conn = k /\ closeLog'[m].what = "session"
                  /\ \E m \in DOMAIN closeLog' :
                        closeLog'[m].conn = k /\ closeLog'[m].what = "transport" ]_vars

\* No initialize_mcp has run and nothing is registered.
Uninitialized ==
    /\ \A s \in Sessions : pc[s] = "idle"
    /\ \A i \in ServerIds : connectAttempts[i] = 0
    /\ registry = << <<>>, FALSE, <<>> >>

\* C27: cleanup_mcp called on an UNINITIALIZED registry returns without raising
\* and leaves _mcp_tools, _mcp_ready and _mcp_connections as they were.
C27_TeardownOfNothingIsNoOp ==
    [][ (Uninitialized /\ cpc = "idle" /\ cpc' # "idle") =>
            /\ cpc' = "done"
            /\ registry' = registry ]_vars

\* cleanup_mcp has returned from a call made before any chat session started.
C27_Witness ==
    /\ Uninitialized
    /\ cpc = "done"
    /\ torn_down

\* C28: once cleanup_mcp has returned, the registry does not report itself
\* ready, and no later initialize_mcp tries to connect a server.
C28_ShutDownIsTerminal ==
    [][ /\ torn_down' => ~mcp_ready'
        /\ torn_down => connectAttempts' = connectAttempts ]_vars

\* C29: while the call of one chat session waits at the consent prompt, every
\* other session can take its next step: start, call a tool, have its own
\* prompt answered, have its tool answer, or hand its result to its agent.
C29_PendingConsentBlocksNoOne ==
    \A s, t \in Sessions :
        (s # t /\ wpc[s] = "consent") =>
            /\ (pc[t] = "idle" /\ \A u \in Sessions : u < t => pc[u] # "idle")
                    => ENABLED OnChatStart(t)
            /\ (pc[t] = "done" /\ wpc[t] = "idle") => ENABLED WrappedInvokeAnyTime(t)
            /\ wpc[t] = "consent" => ENABLED ConsentAnswered(t)
            /\ wpc[t] = "ainvoke" => ENABLED ToolAnswered(t)
            /\ wpc[t] \in {"returned", "raised"} => ENABLED CallOver(t)

\* The first session waits at its consent prompt while the session that started
\* after it has had its own prompt approved and its tool has answered.
C29_Witness ==
    /\ wpc[1] = "consent"
    /\ fresh[2] = FALSE
    /\ pc[2] = "done"
    /\ consent[2] = "granted"
    /\ wpc[2] = "returned"
    /\ result[2].kind = "value"

\* C31: after any sequence of initializations, one chat session after the other,
\* _mcp_connections holds at most one connection per configured server name.
C31_OneConnectionPerServer ==
    \A m, n \in DOMAIN mcp_connections :
        mcp_connections[m].name = mcp_connections[n].name => m = n

\* C32: every tool of _mcp_tools was loaded over a connection that is still in
\* _mcp_connections, and _mcp_ready is not true while _mcp_connections is empty.
C32_ToolsHaveLiveConnection ==
    /\ mcp_ready => mcp_connections # <<>>
    /\ \A j \in DOMAIN mcp_tools :
          \E k \in DOMAIN mcp_connections :
              /\ mcp_connections[k].name = mcp_tools[j].server
              /\ InSeq(mcp_tools[j], mcp_connections[k].tools)

\* C33: the agent holds one wrapped tool per tool of _mcp_tools, in the same
\* order and under the same name, and a call of the i-th wrapped tool is
\* classified under the i-th tool's name and reaches the i-th tool only.
C33_WrapperBoundToItsOwnTool ==
    \A s \in Sessions :
        /\ Len(agent_tools[s]) = Len(base_tools) + Len(mcp_tools)
        /\ \A i \in DOMAIN mcp_tools :
              LET w == agent_tools[s][Len(base_tools) + i]
              IN  /\ w.name = mcp_tools[i].name
                  /\ call[s].tool = w =>
                        /\ decision[s] = is_mutation_operation(mcp_tools[i].name,
                                                               call[s].kwargs)
                        /\ \A k \in DOMAIN invoked[s] : invoked[s][k] = mcp_tools[i]

\* Of two wrapped tools, the first was called with a mutating command and, after
\* approval, its own tool was invoked.
C33_Witness ==
    \E s \in Sessions :
        /\ Len(mcp_tools) >= 2
        /\ call[s].tool = agent_tools[s][Len(base_tools) + 1]
        /\ decision[s].is_mutation
        /\ invoked[s] = << mcp_tools[1] >>

\* Chunks yielded from the place `from`.
YieldedFrom(from) == SelectSeq(yielded, LAMBDA c : c.from = from)

\* C34: when stream_to_chainlit has ended without an exception and the final AI
\* message has a text, that text is yielded as a fallback if and only if no text
\* chunk was yielded during streaming.
C34_FallbackIffNothingStreamed ==
    ( /\ spc = "done"
      /\ YieldedFrom("error") = <<>>
      /\ last_message.ai
      /\ fallback_chunks(last_message.content) # <<>>
      /\ nonempty(last_message.content) )
    => (YieldedFrom("fallback") # <<>> <=> YieldedFrom("stream") = <<>>)
====
